---- MODULE Spec2Model ----
(***************************************************************************)
(* Gated frequency counter (counter.c, AVR ATmega, 20 MHz).                *)
(*                                                                         *)
(* Timer/Counter 1 counts falling edges on the T1 pin; its overflow        *)
(* handler tallies the wraps in freqCounter.  Timer/Counter 2 runs from    *)
(* the 1024 prescaler tap; its overflow handler counts secTimer down and   *)
(* closes the gate.  main() polls flags.dataReady, assembles the           *)
(* frequency, shows it and restarts both timers.                           *)
(*                                                                         *)
(* The model is a state machine with one action per C statement of main()  *)
(* (t1_init and t2_init: one action per register write), one action per    *)
(* interrupt handler (handlers run with the global interrupt flag cleared, *)
(* so a handler run is atomic), and two actions of the environment: one    *)
(* tick of the prescaled clock and one burst of falling edges on T1.       *)
(*                                                                         *)
(* Processor rules the interleaving rests on (AVR core):                   *)
(*  - a handler starts only at an instruction boundary of main(), when     *)
(*    its flag (TOVn), its enable bit (TOIEn) and SREG.I are all set;      *)
(*    its flag is cleared by hardware on entry;                            *)
(*  - a pending, enabled interrupt is taken before the next instruction    *)
(*    of main(), except that one instruction of main() always executes     *)
(*    after a return from a handler and after sei; when both overflows     *)
(*    are pending, either handler may be taken first;                      *)
(*  - one instruction is far shorter than one tick of the 1024 tap, so     *)
(*    the processor executes at least one step between two ticks.          *)
(***************************************************************************)
EXTENDS Integers, Naturals, Sequences, FiniteSets, TLC

VARIABLES
  pc,          \* position of main()
  ret,         \* return address of the running t1_init / t2_init call
  I,           \* SREG global interrupt enable
  afterReti,   \* one instruction of main() is due before the next interrupt
  ticked,      \* a prescaler tick has occurred since the last processor step
  TCCR1B,      \* Timer 1 clock select (0 = stopped)
  TCNT1,       \* Timer 1 counter, 16 bit
  TOV1,        \* TIFR1.TOV1, Timer 1 overflow pending
  TOIE1,       \* TIMSK1.TOIE1
  TCCR2B,      \* Timer 2 clock select (0 = stopped)
  TCNT2,       \* Timer 2 counter, 8 bit
  TOV2,        \* TIFR2.TOV2, Timer 2 overflow pending
  TOIE2,       \* TIMSK2.TOIE2
  TCNT0,       \* Timer 0 counter, 8 bit (never started)
  dataReady,   \* flags.dataReady
  lastSec,     \* flags.lastSec
  secTimer,    \* unsigned char
  freqCounter, \* unsigned char
  r24,         \* the flag byte held in a register during flags.dataReady = 0
  frequency,   \* unsigned long, local of main()
  t1val,       \* the int returned by getTimer1()
  lcd,         \* the number last written to the display
  gateTicks,   \* history: Timer 2 ticks since timer2On()
  edges,       \* history: falling edges counted by Timer 1 since timer1On()
  pulseActs,   \* history: edge bursts delivered since timer1On()
  owed,        \* history: gate closures minus values displayed
  seen,        \* history: <<freqCounter, TCNT1>> when the loop saw dataReady
  rate,        \* input frequency of the evenly spaced input (SpecEven)
  t2runs       \* history: runs of the Timer 2 handler since timer2On()

cpu == <<pc, ret, I, afterReti>>
timer1 == <<TCCR1B, TCNT1, TOV1, TOIE1>>
timer2 == <<TCCR2B, TCNT2, TOV2, TOIE2>>
ram == <<dataReady, lastSec, secTimer, freqCounter>>
locals == <<r24, frequency, t1val, lcd>>
history == <<gateTicks, edges, pulseActs, owed, seen, rate,
                 t2runs>>
vars == <<cpu, ticked, timer1, timer2, TCNT0, ram, locals, history>>

---------------------------------------------------------------------------
(* Constants of the program.                                               *)

ONE_SEC_GATE == (10000000 \div 512) \div 256

LAST_SEC == 256 - (29 * 256) \div 100

\* Ticks of the 1024 tap in one second at 20 MHz.
TICKS_PER_SEC == 20000000 \div 1024

T1_FALLING == 6

T2_DIV1024 == 7

Pow8 == 2^8

Pow16 == 2^16

Pow15 == 2^15

Pow24 == Pow8 * Pow16

(* Bounds of the model.                                                    *)

\* Edge bursts the input delivers within one gate.
MaxPulseActs == 2

\* Sizes of an edge burst: a single edge, and one short of a full wrap.
PulseSteps == {1, Pow16 - 1}

\* Input frequencies of the evenly spaced input, in edges per second.
Rates == {0, 1000, Pow24}

---------------------------------------------------------------------------
(* Conversions of the C types (avr-gcc: int is 16 bit, long is 32 bit).    *)
(* A 32-bit value is the pair <<high word, low word>> of 16-bit words.     *)

\* uint16_t -> int
ToInt16(x) == IF x >= Pow15 THEN x - Pow16 ELSE x

\* int -> unsigned long: sign extension
ToULong(i) == IF i < 0 THEN <<Pow16 - 1, i + Pow16>> ELSE <<0, i>>

\* unsigned char -> unsigned long
ByteToULong(c) == <<0, c>>

\* unsigned long * 65536UL
Shl16(u) == <<u[2], 0>>

\* unsigned long + unsigned long
AddULong(u, v) ==
  <<(u[1] + v[1] + (u[2] + v[2]) \div Pow16) % Pow16, (u[2] + v[2]) % Pow16>>

\* unsigned long -> long, the argument type of ltoa; the number ltoa writes
ToLong(u) ==
  IF u[1] >= Pow15 THEN (u[1] - Pow16) * Pow16 + u[2] ELSE u[1] * Pow16 + u[2]

\* getTimer1(): TCNT1 returned as int
GetTimer1 == ToInt16(TCNT1)

\* frequency = (unsigned long)freqCounter * 65536UL
FrequencyHigh == Shl16(ByteToULong(freqCounter))

\* frequency += (unsigned long)getTimer1()
FrequencySum == AddULong(frequency, ToULong(t1val))

---------------------------------------------------------------------------
(* Interrupt logic.                                                        *)

IntReady1 == I /\ TOIE1 /\ TOV1

IntReady2 == I /\ TOIE2 /\ TOV2

IntReady == IntReady1 \/ IntReady2

\* main() executes its next instruction
MainRuns == ~IntReady \/ afterReti

\* a handler is entered
IntTaken == IntReady /\ ~afterReti

Init ==
  /\ pc = "m193" /\ ret = "none" /\ I = FALSE /\ afterReti = FALSE
  /\ ticked = FALSE
  /\ TCCR1B = 0 /\ TCNT1 = 0 /\ TOV1 = FALSE /\ TOIE1 = FALSE
  /\ TCCR2B = 0 /\ TCNT2 = 0 /\ TOV2 = FALSE /\ TOIE2 = FALSE
  /\ TCNT0 = 0
  /\ dataReady = 0 /\ lastSec = 0 /\ secTimer = 0 /\ freqCounter = 0
  /\ r24 = <<0, 0>> /\ frequency = <<0, 0>> /\ t1val = 0 /\ lcd = 0
  /\ gateTicks = 0 /\ edges = 0 /\ pulseActs = 0 /\ owed = 0
  /\ seen = <<0, 0>> /\ t2runs = 0
  /\ rate = 0

\* One statement of main(): from label a to label b.
Step(a, b) ==
  /\ pc = a
  /\ MainRuns
  /\ pc' = b
  /\ afterReti' = FALSE
  /\ ticked' = FALSE

---------------------------------------------------------------------------
(* main(), lines 193-209: start-up.                                        *)

\* secTimer = ONE_SEC_GATE;
M193 ==
  /\ Step("m193", "m194")
  /\ secTimer' = ONE_SEC_GATE
  /\ UNCHANGED <<ret, I, timer1, timer2, TCNT0, dataReady, lastSec,
                 freqCounter, locals, history>>

\* freqCounter = 0;
M194 ==
  /\ Step("m194", "m195")
  /\ freqCounter' = 0
  /\ UNCHANGED <<ret, I, timer1, timer2, TCNT0, dataReady, lastSec,
                 secTimer, locals, history>>

\* flags.Val = 0;
M195 ==
  /\ Step("m195", "m198")
  /\ dataReady' = 0
  /\ lastSec' = 0
  /\ UNCHANGED <<ret, I, timer1, timer2, TCNT0, secTimer, freqCounter,
                 locals, history>>

\* t2_init();
M198 ==
  /\ Step("m198", "t2_118")
  /\ ret' = "m199"
  /\ UNCHANGED <<I, timer1, timer2, TCNT0, ram, locals, history>>

\* t1_init();
M199 ==
  /\ Step("m199", "t1_100")
  /\ ret' = "m201"
  /\ UNCHANGED <<I, timer1, timer2, TCNT0, ram, locals, history>>

\* timer2On(): TCCR2B = 0b00000111
Timer2On(a, b) ==
  /\ Step(a, b)
  /\ TCCR2B' = T2_DIV1024
  /\ gateTicks' = 0
  /\ t2runs' = 0
  /\ UNCHANGED <<ret, I, timer1, TCNT2, TOV2, TOIE2, TCNT0, ram, locals,
                 edges, pulseActs, owed, seen, rate>>

\* timer1On(): TCCR1B = 0b00000110
Timer1On(a, b) ==
  /\ Step(a, b)
  /\ TCCR1B' = T1_FALLING
  /\ edges' = 0
  /\ pulseActs' = 0
  /\ UNCHANGED <<ret, I, TCNT1, TOV1, TOIE1, timer2, TCNT0, ram, locals,
                 gateTicks, owed, seen, rate,
                 t2runs>>

M201 == Timer2On("m201", "m202")

M202 == Timer1On("m202", "m205")

\* sei(); the instruction after sei executes before any pending interrupt
M205 ==
  /\ pc = "m205"
  /\ MainRuns
  /\ pc' = "m208"
  /\ I' = TRUE
  /\ afterReti' = TRUE
  /\ ticked' = FALSE
  /\ UNCHANGED <<ret, timer1, timer2, TCNT0, ram, locals, history>>

\* hd44780_putstr("Frequency Counter"); _delay_ms(1000);
M208 ==
  /\ Step("m208", "m214")
  /\ UNCHANGED <<ret, I, timer1, timer2, TCNT0, ram, locals, history>>

\* One more instruction of a long-running call: the banner and its delay
\* (line 208-209), ltoa and the display calls (lines 222-224).
Busy ==
  /\ pc \in {"m208", "m222"}
  /\ MainRuns
  /\ ticked \/ afterReti
  /\ afterReti' = FALSE
  /\ ticked' = FALSE
  /\ UNCHANGED <<pc, ret, I, timer1, timer2, TCNT0, ram, locals, history>>

---------------------------------------------------------------------------
(* t2_init(), lines 117-123, and t1_init(), lines 99-105.                  *)

\* TCCR2A = 0;
T2_118 ==
  /\ Step("t2_118", "t2_119")
  /\ UNCHANGED <<ret, I, timer1, timer2, TCNT0, ram, locals, history>>

\* TCCR2B = 0;
T2_119 ==
  /\ Step("t2_119", "t2_120")
  /\ TCCR2B' = 0
  /\ UNCHANGED <<ret, I, timer1, TCNT2, TOV2, TOIE2, TCNT0, ram, locals,
                 history>>

\* TCNT2 = 0;
T2_120 ==
  /\ Step("t2_120", "t2_121")
  /\ TCNT2' = 0
  /\ UNCHANGED <<ret, I, timer1, TCCR2B, TOV2, TOIE2, TCNT0, ram, locals,
                 history>>

\* TIFR2 = _BV(TOV2); writing a one clears the flag
T2_121 ==
  /\ Step("t2_121", "t2_122")
  /\ TOV2' = FALSE
  /\ UNCHANGED <<ret, I, timer1, TCCR2B, TCNT2, TOIE2, TCNT0, ram, locals,
                 history>>

\* TIMSK2 = _BV(TOIE2); and return
T2_122 ==
  /\ Step("t2_122", ret)
  /\ TOIE2' = TRUE
  /\ ret' = "none"
  /\ UNCHANGED <<I, timer1, TCCR2B, TCNT2, TOV2, TCNT0, ram, locals,
                 history>>

\* TCCR1A = 0;
T1_100 ==
  /\ Step("t1_100", "t1_101")
  /\ UNCHANGED <<ret, I, timer1, timer2, TCNT0, ram, locals, history>>

\* TCCR1B = 0;
T1_101 ==
  /\ Step("t1_101", "t1_102")
  /\ TCCR1B' = 0
  /\ UNCHANGED <<ret, I, TCNT1, TOV1, TOIE1, timer2, TCNT0, ram, locals,
                 history>>

\* Mutant of T1_102: the counter is not cleared.
T1_102_NoClear ==
  /\ Step("t1_102", "t1_103")
  /\ UNCHANGED <<ret, I, timer1, timer2, TCNT0, ram, locals, history>>

\* TCNT1 = 0;
T1_102 ==
  /\ Step("t1_102", "t1_103")
  /\ TCNT1' = 0
  /\ UNCHANGED <<ret, I, TCCR1B, TOV1, TOIE1, timer2, TCNT0, ram, locals,
                 history>>

\* TIFR1 = _BV(TOV1); writing a one clears the flag
T1_103 ==
  /\ Step("t1_103", "t1_104")
  /\ TOV1' = FALSE
  /\ UNCHANGED <<ret, I, TCCR1B, TCNT1, TOIE1, timer2, TCNT0, ram, locals,
                 history>>

\* TIMSK1 = _BV(TOIE1); and return
T1_104 ==
  /\ Step("t1_104", ret)
  /\ TOIE1' = TRUE
  /\ ret' = "none"
  /\ UNCHANGED <<I, TCCR1B, TCNT1, TOV1, timer2, TCNT0, ram, locals,
                 history>>

---------------------------------------------------------------------------
(* main(), lines 212-234: the acquisition loop.                            *)

\* Mutant of M214: the loop goes on without testing the flag.
M214_NoTest ==
  /\ Step("m214", "m215")
  /\ seen' = <<freqCounter, TCNT1>>
  /\ UNCHANGED <<ret, I, timer1, timer2, TCNT0, ram, locals, gateTicks,
                 edges, pulseActs, owed, rate,
                 t2runs>>

\* if(flags.dataReady == 1)
M214 ==
  /\ Step("m214", IF dataReady = 1 THEN "m215" ELSE "m214")
  /\ seen' = IF dataReady = 1 THEN <<freqCounter, TCNT1>> ELSE seen
  /\ UNCHANGED <<ret, I, timer1, timer2, TCNT0, ram, locals, gateTicks,
                 edges, pulseActs, owed, rate,
                 t2runs>>

\* flags.dataReady = 0; first half: the flag byte is loaded
M215 ==
  /\ Step("m215", "m215w")
  /\ r24' = <<dataReady, lastSec>>
  /\ UNCHANGED <<ret, I, timer1, timer2, TCNT0, ram, frequency, t1val, lcd,
                 history>>

\* Mutant of M215w: the byte is stored back as it was loaded.
M215w_NoClear ==
  /\ Step("m215w", "m218")
  /\ dataReady' = r24[1]
  /\ lastSec' = r24[2]
  /\ UNCHANGED <<ret, I, timer1, timer2, TCNT0, secTimer, freqCounter,
                 locals, history>>

\* flags.dataReady = 0; second half: the byte is stored with bit 0 cleared
M215w ==
  /\ Step("m215w", "m218")
  /\ dataReady' = 0
  /\ lastSec' = r24[2]
  /\ UNCHANGED <<ret, I, timer1, timer2, TCNT0, secTimer, freqCounter,
                 locals, history>>

\* frequency = (unsigned long)freqCounter * 65536UL;
M218 ==
  /\ Step("m218", "m219")
  /\ frequency' = FrequencyHigh
  /\ UNCHANGED <<ret, I, timer1, timer2, TCNT0, ram, r24, t1val, lcd,
                 history>>

\* getTimer1()
M219 ==
  /\ Step("m219", "m219a")
  /\ t1val' = GetTimer1
  /\ UNCHANGED <<ret, I, timer1, timer2, TCNT0, ram, r24, frequency, lcd,
                 history>>

\* frequency += (unsigned long)getTimer1();
M219a ==
  /\ Step("m219a", "m222")
  /\ frequency' = FrequencySum
  /\ UNCHANGED <<ret, I, timer1, timer2, TCNT0, ram, r24, t1val, lcd,
                 history>>

\* ltoa(frequency, tempStr, 10); hd44780_clearLine(0); hd44780_putstr(tempStr);
M222 ==
  /\ Step("m222", "m227")
  /\ lcd' = ToLong(frequency)
  /\ owed' = owed - 1
  /\ seen' = <<0, 0>>
  /\ UNCHANGED <<ret, I, timer1, timer2, TCNT0, ram, r24, frequency, t1val,
                 gateTicks, edges, pulseActs, rate,
                 t2runs>>

\* Mutant of M227: the restart does not reload secTimer.
M227_NoReload ==
  /\ Step("m227", "m228")
  /\ UNCHANGED <<ret, I, timer1, timer2, TCNT0, ram, locals, history>>

\* secTimer = ONE_SEC_GATE;
M227 ==
  /\ Step("m227", "m228")
  /\ secTimer' = ONE_SEC_GATE
  /\ UNCHANGED <<ret, I, timer1, timer2, TCNT0, dataReady, lastSec,
                 freqCounter, locals, history>>

\* Mutant of M228: the restart leaves the tally as it is.
M228_NoReset ==
  /\ Step("m228", "m229")
  /\ UNCHANGED <<ret, I, timer1, timer2, TCNT0, ram, locals, history>>

\* freqCounter = 0;
M228 ==
  /\ Step("m228", "m229")
  /\ freqCounter' = 0
  /\ UNCHANGED <<ret, I, timer1, timer2, TCNT0, dataReady, lastSec,
                 secTimer, locals, history>>

\* t2_init();
M229 ==
  /\ Step("m229", "t2_118")
  /\ ret' = "m230"
  /\ UNCHANGED <<I, timer1, timer2, TCNT0, ram, locals, history>>

\* t1_init();
M230 ==
  /\ Step("m230", "t1_100")
  /\ ret' = "m231"
  /\ UNCHANGED <<I, timer1, timer2, TCNT0, ram, locals, history>>

M231 == Timer2On("m231", "m232")

M232 == Timer1On("m232", "m214")

---------------------------------------------------------------------------
(* Interrupt handlers, lines 158-181.                                      *)

\* ISR(TIMER1_OVF_vect): freqCounter++;
Timer1Ovf ==
  /\ freqCounter' = (freqCounter + 1) % Pow8
  /\ UNCHANGED <<TCCR1B, TCNT1, TOIE1, timer2, TCNT0, dataReady, lastSec,
                 secTimer, owed>>

TIMER1_OVF ==
  /\ IntTaken
  /\ IntReady1
  /\ TOV1' = FALSE
  /\ afterReti' = TRUE
  /\ ticked' = FALSE
  /\ Timer1Ovf
  /\ UNCHANGED <<pc, ret, I, locals, gateTicks, edges, pulseActs, seen, rate,
                 t2runs>>

\* Mutant of GateClose: timer1Off() is missing.
GateClose_Timer1Runs ==
  /\ TCCR2B' = 0
  /\ dataReady' = 1
  /\ lastSec' = 0
  /\ owed' = owed + 1
  /\ UNCHANGED <<TCCR1B, secTimer, TCNT0>>

\* Mutant of GateClose: timer2Off() is missing.
GateClose_Timer2Runs ==
  /\ TCCR1B' = 0
  /\ dataReady' = 1
  /\ lastSec' = 0
  /\ owed' = owed + 1
  /\ UNCHANGED <<TCCR2B, secTimer, TCNT0>>

\* Mutant of GateClose: flags.dataReady = 1 is missing.
GateClose_NoReady ==
  /\ TCCR1B' = 0
  /\ TCCR2B' = 0
  /\ lastSec' = 0
  /\ owed' = owed + 1
  /\ UNCHANGED <<dataReady, secTimer, TCNT0>>

\* Mutant of GateClose: flags.lastSec = 0 is missing.
GateClose_KeepsLastSec ==
  /\ TCCR1B' = 0
  /\ TCCR2B' = 0
  /\ dataReady' = 1
  /\ owed' = owed + 1
  /\ UNCHANGED <<lastSec, secTimer, TCNT0>>

\* lines 169-172: timer1Off(); timer2Off(); flags.dataReady = 1;
\* flags.lastSec = 0;
GateClose ==
  /\ TCCR1B' = 0
  /\ TCCR2B' = 0
  /\ dataReady' = 1
  /\ lastSec' = 0
  /\ owed' = owed + 1
  /\ UNCHANGED <<secTimer, TCNT0>>

\* Mutant of GateCount: the last roll-over is announced one overflow early.
GateCount_Early ==
  /\ secTimer' = (secTimer - 1) % Pow8
  /\ IF secTimer' = 1
       THEN TCNT0' = LAST_SEC /\ lastSec' = 1
       ELSE UNCHANGED <<TCNT0, lastSec>>
  /\ UNCHANGED <<TCCR1B, TCCR2B, dataReady, owed>>

\* lines 175-179: if(--secTimer == 0){ TCNT0 = LAST_SEC; flags.lastSec = 1; }
GateCount ==
  /\ secTimer' = (secTimer - 1) % Pow8
  /\ IF secTimer' = 0
       THEN TCNT0' = LAST_SEC /\ lastSec' = 1
       ELSE UNCHANGED <<TCNT0, lastSec>>
  /\ UNCHANGED <<TCCR1B, TCCR2B, dataReady, owed>>

\* ISR(TIMER2_OVF_vect)
Timer2Ovf ==
  /\ IF lastSec = 1 THEN GateClose ELSE GateCount
  /\ UNCHANGED <<TCNT1, TOV1, TOIE1, TCNT2, TOIE2, freqCounter>>

TIMER2_OVF ==
  /\ IntTaken
  /\ IntReady2
  /\ TOV2' = FALSE
  /\ afterReti' = TRUE
  /\ ticked' = FALSE
  /\ Timer2Ovf
  /\ t2runs' = t2runs + 1
  /\ UNCHANGED <<pc, ret, I, locals, gateTicks, edges, pulseActs, seen, rate>>

---------------------------------------------------------------------------
(* The environment: the prescaled clock and the T1 input.                  *)

\* One tick of the 1024 tap: Timer 2 counts and sets TOV2 on the wrap.
Tick ==
  /\ TCCR2B # 0
  /\ ~ticked
  /\ ticked' = TRUE
  /\ TCNT2' = (TCNT2 + 1) % Pow8
  /\ TOV2' = (TOV2 \/ TCNT2 + 1 = Pow8)
  /\ gateTicks' = gateTicks + 1
  /\ UNCHANGED <<cpu, timer1, TCCR2B, TOIE2, TCNT0, ram, locals, edges,
                 pulseActs, owed, seen, rate,
                 t2runs>>

\* Timer 1 counts k falling edges and sets TOV1 on the wrap.
Count(k) ==
  /\ TCNT1' = (TCNT1 + k) % Pow16
  /\ TOV1' = (TOV1 \/ TCNT1 + k >= Pow16)
  /\ edges' = edges + k

\* A burst of k falling edges on T1.  The input never wraps the counter a
\* second time while the first wrap is still waiting for its handler.
Pulse ==
  \E k \in PulseSteps :
    /\ TCCR1B # 0
    /\ pulseActs < MaxPulseActs
    /\ ~(TOV1 /\ TCNT1 + k >= Pow16)
    /\ Count(k)
    /\ pulseActs' = pulseActs + 1
    /\ UNCHANGED <<cpu, ticked, TCCR1B, TOIE1, timer2, TCNT0, ram, locals,
                   gateTicks, owed, seen, rate,
                 t2runs>>

\* Edges of an input of `rate` edges per second that fall into the tick
\* after n ticks.
EdgesUpTo(n) ==
  n * (rate \div TICKS_PER_SEC) + (n * (rate % TICKS_PER_SEC)) \div TICKS_PER_SEC

EdgesInTick(n) == EdgesUpTo(n + 1) - EdgesUpTo(n)

\* One tick of the 1024 tap with an evenly spaced input on T1.
TickEven ==
  /\ TCCR2B # 0
  /\ ~ticked
  /\ ticked' = TRUE
  /\ TCNT2' = (TCNT2 + 1) % Pow8
  /\ TOV2' = (TOV2 \/ TCNT2 + 1 = Pow8)
  /\ gateTicks' = gateTicks + 1
  /\ IF TCCR1B # 0
       THEN Count(EdgesInTick(gateTicks))
       ELSE UNCHANGED <<TCNT1, TOV1, edges>>
  /\ UNCHANGED <<cpu, TCCR1B, TOIE1, TCCR2B, TOIE2, TCNT0, ram, locals,
                 pulseActs, owed, seen, rate,
                 t2runs>>

---------------------------------------------------------------------------
Startup ==
  \/ M193 \/ M194 \/ M195 \/ M198 \/ M199 \/ M201 \/ M202 \/ M205 \/ M208

Inits ==
  \/ T2_118 \/ T2_119 \/ T2_120 \/ T2_121 \/ T2_122
  \/ T1_100 \/ T1_101 \/ T1_102 \/ T1_103 \/ T1_104

Loop ==
  \/ M214 \/ M215 \/ M215w \/ M218 \/ M219 \/ M219a \/ M222
  \/ M227 \/ M228 \/ M229 \/ M230 \/ M231 \/ M232

Main == Startup \/ Inits \/ Loop \/ Busy

Isr == TIMER1_OVF \/ TIMER2_OVF

Next == Main \/ Isr \/ Tick \/ Pulse

Spec == Init /\ [][Next]_vars

InitEven ==
  /\ pc = "m193" /\ ret = "none" /\ I = FALSE /\ afterReti = FALSE
  /\ ticked = FALSE
  /\ TCCR1B = 0 /\ TCNT1 = 0 /\ TOV1 = FALSE /\ TOIE1 = FALSE
  /\ TCCR2B = 0 /\ TCNT2 = 0 /\ TOV2 = FALSE /\ TOIE2 = FALSE
  /\ TCNT0 = 0
  /\ dataReady = 0 /\ lastSec = 0 /\ secTimer = 0 /\ freqCounter = 0
  /\ r24 = <<0, 0>> /\ frequency = <<0, 0>> /\ t1val = 0 /\ lcd = 0
  /\ gateTicks = 0 /\ edges = 0 /\ pulseActs = 0 /\ owed = 0
  /\ seen = <<0, 0>> /\ t2runs = 0
  /\ rate \in Rates

NextEven == Main \/ Isr \/ TickEven

SpecEven == InitEven /\ [][NextEven]_vars

\* The statements of main() other than one more instruction of a long call.
Progress == Startup \/ Inits \/ Loop

\* The processor keeps executing instructions, the long calls return, a
\* pending interrupt is served and the prescaled clock keeps ticking.  The
\* input is under no obligation.
FairEven ==
  /\ SpecEven
  /\ WF_vars(Main)
  /\ WF_vars(Progress)
  /\ WF_vars(Isr)
  /\ WF_vars(TickEven)

---------------------------------------------------------------------------
(* Properties.                                                             *)

\* The gate is open: a timer is enabled.
GateOpen == TCCR1B # 0 \/ TCCR2B # 0

\* main() has seen dataReady = 1 and has not yet read both halves.
SeenUnread == pc \in {"m215", "m215w", "m218", "m219"}

\* C1 as claimed: from the observation of dataReady = 1 until both halves
\* are read, freqCounter and TCNT1 keep the values they had when the flag
\* was observed.
C1_PairFrozen == SeenUnread => <<freqCounter, TCNT1>> = seen

\* C1 as amended: the pair main() assembles is never torn.  From the
\* observation of the flag on Timer 1 is stopped, so TCNT1 is frozen; no
\* overflow is pending any more when main() reads freqCounter; and with
\* both halves read, each half read is the value its counter holds.
C1_NeverTorn ==
  /\ SeenUnread => TCCR1B = 0 /\ TCNT1 = seen[2]
  /\ pc \in {"m218", "m219", "m219a"} => ~TOV1
  /\ pc = "m219a" =>
       /\ frequency = FrequencyHigh
       /\ t1val = GetTimer1

\* C1 witness: both halves are read, and freqCounter was incremented by a
\* pending overflow after main() saw the flag.
C1_Witness == pc = "m219a" /\ seen[1] # freqCounter

\* C2: whenever dataReady is 1 both timers are stopped.
C2_ReadyImpliesStopped == dataReady = 1 => TCCR1B = 0 /\ TCCR2B = 0

\* C2 witness: the gate has closed and main() is half way through clearing
\* the flag.
C2_Witness == dataReady = 1 /\ pc = "m215w"

\* C3 as claimed: at gate close the Gate Timer has run for
\* ONE_SEC_GATE * 256 + (256 - LAST_SEC) ticks, give or take one.
C3_GateIsOneSecond ==
  dataReady = 1 =>
    /\ gateTicks >= ONE_SEC_GATE * Pow8 + (Pow8 - LAST_SEC) - 1
    /\ gateTicks <= ONE_SEC_GATE * Pow8 + (Pow8 - LAST_SEC) + 1

\* C4 as claimed: the frequency handed to the display is
\* freqCounter * 2^16 + TCNT1 of the frozen pair.
C4_FrequencyIsPair == pc = "m222" => frequency = <<freqCounter, TCNT1>>

\* C5 as claimed: with `rate` edges per second spread evenly over the
\* ticks, the number displayed is rate, give or take one.
C5_ReportsRate == pc = "m227" => lcd >= rate - 1 /\ lcd <= rate + 1

\* C6: when a timer is about to be enabled, at start-up and at every
\* restart, its counter is 0, and freqCounter is 0, secTimer is
\* ONE_SEC_GATE, both flags are 0 and no overflow is pending; when Timer 1
\* is enabled, one instruction after Timer 2, Timer 2 has counted at most
\* the one tick that fell between the two instructions.
C6_CleanStart ==
  /\ pc \in {"m201", "m231", "m202", "m232"} =>
       /\ TCNT1 = 0 /\ freqCounter = 0 /\ ~TOV1 /\ TCCR1B = 0
       /\ secTimer = ONE_SEC_GATE /\ lastSec = 0 /\ dataReady = 0
       /\ ~TOV2
  /\ pc \in {"m201", "m231"} => TCNT2 = 0 /\ TCCR2B = 0
  /\ pc \in {"m202", "m232"} => TCNT2 <= 1 /\ TCNT2 = gateTicks

\* C6 witness: a restart after a cycle that counted edges.
C6_Witness == pc = "m232" /\ frequency # <<0, 0>> /\ TCNT2 = 1

\* The statements of main() that read or write freqCounter, TCNT1,
\* secTimer or TCNT2.
LoopAccess ==
  pc \in {"m193", "m194", "m218", "m219", "m227", "m228", "t2_120", "t1_102"}

\* C9: main() is at a statement that reads or writes freqCounter, TCNT1,
\* secTimer or TCNT2 only while both timers are stopped; and a step of
\* main() changes any of the four only then.
C9_NoAccessWhileOpen == LoopAccess => ~GateOpen

\* C9 witness: main() is about to read TCNT1 after a gate that counted edges.
C9_Witness == pc = "m219" /\ edges > 0 /\ ~GateOpen

\* main() has seen dataReady = 1 and has not yet displayed the value.
Reading == pc \in {"m215", "m215w", "m218", "m219", "m219a", "m222"}

\* C7: once a timer runs, the gate closes: both timers stopped and
\* dataReady = 1.
C7_GateCloses == GateOpen ~> (~GateOpen /\ dataReady = 1)

\* C7 witness: a gate that was opened by a restart has closed.
C7_Witness == dataReady = 1 /\ ~GateOpen /\ lcd # 0

\* C8: closures and displayed values alternate one to one (a closure is
\* owed a value exactly from the closing handler until the value is
\* displayed, and never more than one), and every closure is followed by
\* the flag cleared, the value displayed and both timers running again.
C8_OneReportPerClosure ==
  /\ [](owed = (IF dataReady = 1 \/ Reading THEN 1 ELSE 0))
  /\ (dataReady = 1) ~> (dataReady = 0 /\ owed = 0 /\ TCCR1B # 0 /\ TCCR2B # 0)

\* C8 witness: the second gate is running and the first value is displayed.
C8_Witness == owed = 0 /\ pc = "m214" /\ TCCR1B # 0 /\ lcd > 0 /\ gateTicks > 0

\* Wraps of TCNT1 since timer1On().
Overflows == edges \div Pow16

\* C10 as claimed: the tally main() reads has not wrapped while the gate
\* saw fewer than 2^16 - 1 overflows of TCNT1.
C10_TallyCeiling ==
  pc = "m218" /\ Overflows < Pow16 - 1 => freqCounter = Overflows

\* C11: a gate in which Timer 1 counted no edge hands 0 to the display and
\* displays 0, whatever the cycles before it counted.
C11_ZeroInputReportsZero ==
  edges = 0 =>
    /\ pc = "m222" => frequency = <<0, 0>>
    /\ pc = "m227" => lcd = 0

\* C11 witness: 0 is about to be displayed after a cycle that displayed
\* another value.
C11_Witness == pc = "m222" /\ edges = 0 /\ frequency = <<0, 0>> /\ lcd # 0

\* A run of the Timer 2 overflow handler: TOV2 is cleared and main() stays
\* where it is.
T2Run == TOV2 /\ ~TOV2' /\ pc' = pc

\* The state of the Measurement Coordinator.
CoordState ==
  IF dataReady = 1 THEN "Ready"
  ELSE IF lastSec = 1 THEN "Closing"
  ELSE IF GateOpen THEN "Gating"
  ELSE "Idle"

CoordOrder ==
  { <<"Idle", "Gating">>, <<"Gating", "Closing">>, <<"Closing", "Ready">>,
    <<"Ready", "Idle">> }

\* C12: the Coordinator changes state only along Idle -> Gating -> Closing
\* -> Ready -> Idle; lastSec is set only by a Timer 2 handler run that
\* brings secTimer to 0; dataReady is set only by a Timer 2 handler run
\* that finds lastSec set, and that run stops both timers and clears
\* lastSec; dataReady is cleared only by main() at line 215.
C12_StateOrder ==
  [][ /\ CoordState' # CoordState => <<CoordState, CoordState'>> \in CoordOrder
      /\ lastSec = 0 /\ lastSec' = 1 =>
           T2Run /\ secTimer = 1 /\ secTimer' = 0
      /\ dataReady = 0 /\ dataReady' = 1 =>
           /\ T2Run /\ lastSec = 1 /\ lastSec' = 0
           /\ TCCR1B' = 0 /\ TCCR2B' = 0
      /\ dataReady = 1 /\ dataReady' = 0 => pc = "m215w" /\ pc' = "m218"
    ]_vars

\* C12 witness: Ready, reached through the closing run of the handler.
C12_Witness ==
  CoordState = "Ready" /\ t2runs = ONE_SEC_GATE + 1 /\ TCNT0 = LAST_SEC

\* C13 as claimed: a Timer 2 handler run that finds lastSec clear
\* decrements secTimer by one; exactly when the result is 0 it loads TCNT2
\* with LAST_SEC and sets lastSec; it writes no other timer register, stops
\* no timer and leaves dataReady and freqCounter alone.
C13_CountBranchFrame ==
  [][ T2Run /\ lastSec = 0 =>
        /\ secTimer' = secTimer - 1
        /\ (secTimer' = 0) <=> (TCNT2' = LAST_SEC /\ lastSec' = 1)
        /\ secTimer' # 0 => TCNT2' = TCNT2 /\ lastSec' = 0
        /\ TCNT0' = TCNT0 /\ TCNT1' = TCNT1
        /\ TCCR1B' = TCCR1B /\ TCCR2B' = TCCR2B
        /\ dataReady' = dataReady /\ freqCounter' = freqCounter
    ]_vars

\* C14: while Timer 2 runs the handler has run ONE_SEC_GATE - secTimer
\* times, at most ONE_SEC_GATE, and lastSec is set exactly after the last
\* of these; once Timer 2 has been stopped the handler has run
\* ONE_SEC_GATE + 1 times, and that count stands until the restart.
C14_HandlerRuns ==
  /\ TCCR2B # 0 =>
       /\ t2runs = ONE_SEC_GATE - secTimer
       /\ t2runs <= ONE_SEC_GATE
       /\ (lastSec = 1) <=> (t2runs = ONE_SEC_GATE)
  /\ TCCR2B = 0 /\ I => t2runs = ONE_SEC_GATE + 1
  /\ dataReady = 1 => t2runs = ONE_SEC_GATE + 1

\* C14 witness: the restart is about to enable Timer 2 and the closed
\* gate's count still stands.
C14_Witness == pc = "m231" /\ t2runs = ONE_SEC_GATE + 1 /\ lcd # 0

\* C15 as claimed: while Timer 1 runs and no overflow of it is pending,
\* freqCounter * 2^16 + TCNT1 is the number of edges counted since
\* timer1On().
C15_PairCountsEdges ==
  TCCR1B # 0 /\ ~TOV1 => freqCounter * Pow16 + TCNT1 = edges

\* C16: secTimer stays within 0 .. ONE_SEC_GATE, lastSec = 1 implies
\* secTimer = 0, and a handler run changes secTimer only from a value of
\* at least 1 to one less.
C16_NoUnderflow ==
  /\ [](/\ secTimer >= 0 /\ secTimer <= ONE_SEC_GATE
        /\ lastSec = 1 => secTimer = 0)
  /\ [][T2Run /\ secTimer' # secTimer =>
          secTimer >= 1 /\ secTimer' = secTimer - 1]_vars

\* C16 witness: the last roll-over of a later cycle is pending.
C16_Witness == lastSec = 1 /\ secTimer = 0 /\ TCCR2B # 0 /\ lcd # 0

\* C17: between the load and the store of the flag byte Timer 2 is
\* stopped with no overflow pending, so the byte in the register is the
\* byte in memory; after the store dataReady is 0 and lastSec is what the
\* closing handler left.
C17_NoLostFlagUpdate ==
  /\ pc = "m215w" => r24 = <<dataReady, lastSec>> /\ TCCR2B = 0 /\ ~TOV2
  /\ pc = "m218" => dataReady = 0 /\ lastSec = r24[2] /\ lastSec = 0

\* C17 witness: the byte has just been stored with dataReady cleared.
C17_Witness == pc = "m218" /\ r24 = <<1, 0>> /\ dataReady = 0

====
